---------------------------- MODULE Spec2Model ----------------------------
(***************************************************************************)
(* The hybrid graph/vector retrieval engine of graph_rag_vertex_neo4j.py:  *)
(* ingest_evidence, investigate_case and solve_crime, acting on the Neo4j  *)
(* store (EvidenceChunk nodes, Entity nodes, relationships, MENTIONS       *)
(* edges).  Text is a sequence of one-character strings, so that str.upper,*)
(* str.replace, slicing, CONTAINS and the regular-expression match are     *)
(* computed character by character.                                        *)
(***************************************************************************)
EXTENDS Integers, Sequences, FiniteSets, Bags, TLC

\* Number of ingest_evidence calls explored.
MaxIngest == 2

\* similarity_search(query, k=5)
K == 5

\* LIMIT 20 of the traversal query
LIMIT == 20

\* text_data[:100]
SAMPLE_LEN == 100

-----------------------------------------------------------------------------
(* Characters and strings *)

LowerChars ==
    <<"a", "b", "c", "d", "e", "f", "g", "h", "i", "j", "k", "l", "m",
      "n", "o", "p", "q", "r", "s", "t", "u", "v", "w", "x", "y", "z">>

UpperChars ==
    <<"A", "B", "C", "D", "E", "F", "G", "H", "I", "J", "K", "L", "M",
      "N", "O", "P", "Q", "R", "S", "T", "U", "V", "W", "X", "Y", "Z">>

DigitChars ==
    {"0", "1", "2", "3", "4", "5", "6", "7", "8", "9"}

\* Line terminators, which '.' of a Java regular expression does not match.
LineTerminators ==
    {"\n", "\r"}

UpperOf ==
    [c \in {LowerChars[i] : i \in DOMAIN LowerChars} |->
        UpperChars[CHOOSE i \in DOMAIN LowerChars : LowerChars[i] = c]]

LowerOf ==
    [c \in {UpperChars[i] : i \in DOMAIN UpperChars} |->
        LowerChars[CHOOSE i \in DOMAIN UpperChars : UpperChars[i] = c]]

\* str.upper() on one character
UpperChar(c) ==
    IF c \in DOMAIN UpperOf THEN UpperOf[c] ELSE c

\* Case folding of one character, as under the regex flag (?i)
LowerChar(c) ==
    IF c \in DOMAIN LowerOf THEN LowerOf[c] ELSE c

\* str.upper()
Upper(s) ==
    [i \in DOMAIN s |-> UpperChar(s[i])]

\* str.replace(old, new) for one-character old and new
Replace(s, old, new) ==
    [i \in DOMAIN s |-> IF s[i] = old THEN new ELSE s[i]]

\* s[:n]
Take(s, n) ==
    SubSeq(s, 1, IF Len(s) < n THEN Len(s) ELSE n)

\* Cypher: t CONTAINS p (case-sensitive substring)
Contains(t, p) ==
    \E k \in 0..(Len(t) - Len(p)) : \A i \in 1..Len(p) : t[k + i] = p[i]

\* Cypher: t =~ ('(?i).*' + p + '.*') for a literal p.  The whole of t must
\* match; '.*' runs over anything but line terminators.
RegexMatches(t, p) ==
    \E k \in 0..(Len(t) - Len(p)) :
        /\ \A i \in 1..Len(p) : LowerChar(t[k + i]) = LowerChar(p[i])
        /\ \A i \in 1..k : t[i] \notin LineTerminators
        /\ \A i \in (k + Len(p) + 1)..Len(t) : t[i] \notin LineTerminators

RECURSIVE Concat(_)
\* "".join(parts)
Concat(parts) ==
    IF parts = <<>> THEN <<>> ELSE Head(parts) \o Concat(Tail(parts))

Range(s) ==
    {s[i] : i \in DOMAIN s}

-----------------------------------------------------------------------------
(* String literals *)

\* 'Aris' (4 characters)
Aris ==
    <<"A", "r", "i", "s">>

\* 'Marcus' (6 characters)
Marcus ==
    <<"M", "a", "r", "c", "u", "s">>

\* 'Helena' (6 characters)
Helena ==
    <<"H", "e", "l", "e", "n", "a">>

\* 'poison' (6 characters)
Poison ==
    <<"p", "o", "i", "s", "o", "n">>

\* 'POISON' (6 characters)
POISON_UC ==
    <<"P", "O", "I", "S", "O", "N">>

\* 'Person' (6 characters)
Person ==
    <<"P", "e", "r", "s", "o", "n">>

\* 'Object' (6 characters)
Object ==
    <<"O", "b", "j", "e", "c", "t">>

\* 'Witness' (7 characters)
Witness ==
    <<"W", "i", "t", "n", "e", "s", "s">>

\* 'RELATED' (7 characters)
RELATED ==
    <<"R", "E", "L", "A", "T", "E", "D">>

\* 'POSSESSES' (9 characters)
POSSESSES ==
    <<"P", "O", "S", "S", "E", "S", "S", "E", "S">>

\* 'related' (7 characters)
related_lc ==
    <<"r", "e", "l", "a", "t", "e", "d">>

\* 'has motive' (10 characters)
HasMotiveRaw ==
    <<"h", "a", "s", " ", "m", "o", "t", "i", "v", "e">>

\* 'HAS_MOTIVE' (10 characters)
HAS_MOTIVE ==
    <<"H", "A", "S", "_", "M", "O", "T", "I", "V", "E">>

\* 'co-conspirator (alleged)' (24 characters)
AllegedRaw ==
    <<"c", "o", "-", "c", "o", "n", "s", "p", "i", "r", "a", "t", "o", "r", " ", "(", "a", "l",
      "l", "e", "g", "e", "d", ")">>

\* 'None' (4 characters)
NoneStr ==
    <<"N", "o", "n", "e">>

\* ' --[' (4 characters)
ArrowOpen ==
    <<" ", "-", "-", "[">>

\* ']--> ' (5 characters)
ArrowClose ==
    <<"]", "-", "-", ">", " ">>

\* 'EVIDENCE FILE (' (15 characters)
EvidenceFileOpen ==
    <<"E", "V", "I", "D", "E", "N", "C", "E", " ", "F", "I", "L", "E", " ", "(">>

\* '): ' (3 characters)
EvidenceFileClose ==
    <<")", ":", " ">>

\* '\n\n' (2 characters)
BlankLine ==
    <<"\n", "\n">>

\* 'Aris gave Marcus the poison. Marcus had a motive against Helena.' (64 characters)
Sentence ==
    <<"A", "r", "i", "s", " ", "g", "a", "v", "e", " ", "M", "a", "r", "c", "u", "s", " ", "t",
      "h", "e", " ", "p", "o", "i", "s", "o", "n", ".", " ", "M", "a", "r", "c", "u", "s", " ",
      "h", "a", "d", " ", "a", " ", "m", "o", "t", "i", "v", "e", " ", "a", "g", "a", "i", "n",
      "s", "t", " ", "H", "e", "l", "e", "n", "a", ".">>

\* 'Aris met Helena.\nMarcus watched them.' (37 characters)
NotesText ==
    <<"A", "r", "i", "s", " ", "m", "e", "t", " ", "H", "e", "l", "e", "n", "a", ".", "\n",
      "M", "a", "r", "c", "u", "s", " ", "w", "a", "t", "c", "h", "e", "d", " ", "t", "h", "e",
      "m", ".">>

\* 'data/case.txt' (13 characters)
CasePath ==
    <<"d", "a", "t", "a", "/", "c", "a", "s", "e", ".", "t", "x", "t">>

\* 'data/notes.txt' (14 characters)
NotesPath ==
    <<"d", "a", "t", "a", "/", "n", "o", "t", "e", "s", ".", "t", "x", "t">>

\* 'data/copy.txt' (13 characters)
CopyPath ==
    <<"d", "a", "t", "a", "/", "c", "o", "p", "y", ".", "t", "x", "t">>

\* 'Why did Marcus want to hurt Helena?' (35 characters)
Question ==
    <<"W", "h", "y", " ", "d", "i", "d", " ", "M", "a", "r", "c", "u", "s", " ", "w", "a", "n",
      "t", " ", "t", "o", " ", "h", "u", "r", "t", " ", "H", "e", "l", "e", "n", "a", "?">>

-----------------------------------------------------------------------------
(* Inputs: the files read at lines 89-90 and the replies of the generation *)
(* backend at lines 74-78.                                                  *)

\* A one-line file, a two-line file, and a one-line file longer than
\* SAMPLE_LEN characters that starts with the text of the first.
CopyText ==
    Sentence \o <<" ">> \o Sentence

Files ==
    { [path |-> CasePath,  text |-> Sentence],
      [path |-> NotesPath, text |-> NotesText],
      [path |-> CopyPath,  text |-> CopyText] }

NoFile ==
    [path |-> <<>>, text |-> <<>>]

\* A reply is the backend's response.text: not JSON at all (valid = FALSE),
\* JSON that is not an object (isObject = FALSE), or a JSON object (data),
\* whose keys, and those of its entries, may be missing.
NotJson ==
    [valid |-> FALSE, isObject |-> FALSE, data |-> <<>>]

JsonArray ==
    [valid |-> TRUE, isObject |-> FALSE, data |-> <<>>]

JsonObject(d) ==
    [valid |-> TRUE, isObject |-> TRUE, data |-> d]

Node(id, type) ==
    [id |-> id, type |-> type]

Rel(source, type, target) ==
    [source |-> source, target |-> target, type |-> type]

CaseReply ==
    JsonObject([nodes |-> << Node(Aris, Person), Node(Marcus, Person),
                            Node(Helena, Person), Node(Poison, Object) >>,
                relationships |-> << Rel(Aris, RELATED, Marcus),
                                    Rel(Marcus, RELATED, Helena),
                                    Rel(Marcus, POSSESSES, Poison) >>])

\* Marcus is named by a relationship and is not among the nodes.
DanglingReply ==
    JsonObject([nodes |-> << Node(Helena, Person) >>,
                relationships |-> << Rel(Marcus, HasMotiveRaw, Helena) >>])

\* The same id twice, with two types; no "relationships" key.
RetypeReply ==
    JsonObject([nodes |-> << Node(Marcus, Object), Node(Marcus, Witness),
                            Node(POISON_UC, Object) >>])

\* The first node has no "type".
NoTypeReply ==
    JsonObject([nodes |-> << [id |-> Aris], Node(Helena, Person) >>,
                relationships |-> << >>])

\* The second relationship has no "source".
NoSourceReply ==
    JsonObject([nodes |-> << Node(Aris, Person), Node(Marcus, Person) >>,
                relationships |-> << Rel(Marcus, related_lc, Aris),
                                    [target |-> Marcus, type |-> RELATED] >>])

AllegedReply ==
    JsonObject([nodes |-> << Node(Aris, Person), Node(Marcus, Person) >>,
                relationships |-> << Rel(Aris, AllegedRaw, Marcus) >>])

DenseReply ==
    JsonObject([nodes |-> << Node(Aris, Person), Node(Marcus, Person),
                            Node(Helena, Person) >>,
                relationships |-> << Rel(Aris, RELATED, Marcus),
                                    Rel(Marcus, related_lc, Aris),
                                    Rel(Marcus, RELATED, Helena),
                                    Rel(Helena, related_lc, Marcus),
                                    Rel(Helena, RELATED, Aris),
                                    Rel(Aris, related_lc, Helena) >>])

Replies ==
    << NotJson, JsonArray, CaseReply, DanglingReply, RetypeReply,
       NoTypeReply, NoSourceReply, AllegedReply, DenseReply >>

NoReply ==
    [valid |-> FALSE, isObject |-> FALSE, data |-> <<>>]

Queries ==
    { Question }

-----------------------------------------------------------------------------
(* State *)

VARIABLES
    chunks,          \* EvidenceChunk nodes: text -> metadata source
    entities,        \* Entity nodes, in creation order: [id, type]
    rels,            \* relationships between Entities, in creation order
    mentions,        \* MENTIONS edges: [chunk (its text), entity (its id)]
    vector_store,    \* whether ingest_evidence has returned a handle
    nIngest,         \* calls of ingest_evidence so far
    op,              \* the call that ended last
    file,            \* ingest_evidence: the file it read
    reply,           \* ingest_evidence: the backend's response.text
    graph_data,      \* ingest_evidence: what extract_graph_schema returned
    rel_types,       \* ingest_evidence: [raw, rel_type] per query built
    raised,          \* ingest_evidence: the exception it ended with
    repeated,        \* ingest_evidence: same file and reply as the call before
    vector_results,  \* investigate_case: texts of the chunks retrieved
    context_text,    \* investigate_case: first result
    graph_records,   \* investigate_case: the facts of each retrieved chunk
    graph_context,   \* investigate_case: second result
    prompt           \* solve_crime: the generation request

vars ==
    << chunks, entities, rels, mentions, vector_store, nIngest, op, file,
       reply, graph_data, rel_types, raised, repeated, vector_results,
       context_text, graph_records, graph_context, prompt >>

NoDict ==
    [isDict |-> TRUE, data |-> <<>>]

NoPrompt ==
    [evidence_board |-> EmptyBag, case_files |-> <<>>, mystery |-> <<>>]

Init ==
    /\ chunks = <<>>
    /\ entities = <<>>
    /\ rels = <<>>
    /\ mentions = {}
    /\ vector_store = FALSE
    /\ nIngest = 0
    /\ op = "none"
    /\ file = NoFile
    /\ reply = NoReply
    /\ graph_data = NoDict
    /\ rel_types = <<>>
    /\ raised = "none"
    /\ repeated = FALSE
    /\ vector_results = <<>>
    /\ context_text = <<>>
    /\ graph_records = <<>>
    /\ graph_context = <<>>
    /\ prompt = NoPrompt

-----------------------------------------------------------------------------
(* extract_graph_schema *)

EmptyResult ==
    [nodes |-> <<>>, relationships |-> <<>>]

\* json.loads(response.text) with no try/except: text that does not parse
\* leaves no dict to work on
extract_graph_schema_unguarded(response) ==
    [isDict |-> response.valid /\ response.isObject, data |-> response.data]

\* json.loads(response.text) under try/except: the parsed value, or the
\* empty result when the text does not parse.
extract_graph_schema(response) ==
    IF response.valid
    THEN [isDict |-> response.isObject, data |-> response.data]
    ELSE [isDict |-> TRUE, data |-> EmptyResult]

\* dict.get(key, [])
Get(d, key) ==
    IF key \in DOMAIN d THEN d[key] ELSE <<>>

-----------------------------------------------------------------------------
(* The statements ingest_evidence runs *)

EntityIds(ents) ==
    {ents[i].id : i \in DOMAIN ents}

\* Neo4jVector.from_documents: the chunk node is merged on an id derived from
\* its text, and its text and metadata are set.
FromDocuments(ch, f) ==
    [t \in DOMAIN ch \cup {f.text} |-> IF t = f.text THEN f.path ELSE ch[t]]

\* MERGE (n:Entity {id: $id}) SET n.type = $type
MergeEntity(ents, id, type) ==
    IF id \in EntityIds(ents)
    THEN [i \in DOMAIN ents |->
             IF ents[i].id = id THEN [ents[i] EXCEPT !.type = type] ELSE ents[i]]
    ELSE Append(ents, [id |-> id, type |-> type])

\* rel['type'].upper().replace(' ', '_').replace('-', '_')
Sanitize(type) ==
    Replace(Replace(Upper(type), " ", "_"), "-", "_")

\* Whether `[r:<label>]` parses as a relationship type of a Cypher pattern:
\* an unquoted symbolic name.
IsSymbolicName(label) ==
    /\ label # <<>>
    /\ Head(label) \in Range(UpperChars) \cup Range(LowerChars) \cup {"_"}
    /\ \A i \in DOMAIN label :
           label[i] \in Range(UpperChars) \cup Range(LowerChars) \cup DigitChars \cup {"_"}

\* CREATE in place of MERGE: a relationship is added on every run
CreateRel(ents, rs, source, label, target) ==
    IF source \in EntityIds(ents) /\ target \in EntityIds(ents)
    THEN Append(rs, [source |-> source, label |-> label, target |-> target,
                     properties |-> <<>>])
    ELSE rs

\* MERGE of the whole pattern in place of MATCH then MERGE: the relationship
\* is created whether or not its endpoints are stored
MergeRelUnmatched(ents, rs, source, label, target) ==
    IF \E i \in DOMAIN rs :
           rs[i].source = source /\ rs[i].label = label /\ rs[i].target = target
    THEN rs
    ELSE Append(rs, [source |-> source, label |-> label, target |-> target,
                     properties |-> <<>>])

\* MATCH (a:Entity {id: $source}), (b:Entity {id: $target})
\* MERGE (a)-[r:<label>]->(b)
\* The relationship is created with no properties.
MergeRel(ents, rs, source, label, target) ==
    IF source \in EntityIds(ents) /\ target \in EntityIds(ents)
       /\ ~ \E i \in DOMAIN rs :
              rs[i].source = source /\ rs[i].label = label /\ rs[i].target = target
    THEN Append(rs, [source |-> source, label |-> label, target |-> target,
                     properties |-> <<>>])
    ELSE rs

\* MATCH (c:EvidenceChunk)
\* WHERE c.text =~ ('(?i).*' + $entity_id + '.*') AND c.text CONTAINS $text_sample
\* MATCH (e:Entity {id: entity_id})  MERGE (c)-[:MENTIONS]->(e)
LinkMentions(ch, ents, ms, entity_id, text_sample) ==
    ms \cup { [chunk |-> c, entity |-> entity_id] :
                c \in { t \in DOMAIN ch : /\ RegexMatches(t, entity_id)
                                          /\ Contains(t, text_sample)
                                          /\ entity_id \in EntityIds(ents) } }

-----------------------------------------------------------------------------
(* ingest_evidence, lines 112-145: the three loops.  st is the graph as the *)
(* statements run so far have left it; an exception ends the call and keeps *)
(* what was written, no transaction spanning the statements.                *)

RECURSIVE CreateNodes(_, _)
\* for node in graph_data.get("nodes", []): session.run(MERGE ..., id=node['id'], type=node['type'])
CreateNodes(st, nodes) ==
    IF nodes = <<>> \/ st.raised # "none" THEN st
    ELSE LET node == Head(nodes) IN
         IF ~ ({"id", "type"} \subseteq DOMAIN node)
         THEN [st EXCEPT !.raised = "KeyError"]
         ELSE CreateNodes([st EXCEPT !.entities = MergeEntity(@, node.id, node.type)],
                          Tail(nodes))

RECURSIVE CreateRelationships(_, _)
\* for rel in graph_data.get("relationships", []): build the query, run it
CreateRelationships(st, relationships) ==
    IF relationships = <<>> \/ st.raised # "none" THEN st
    ELSE LET rel == Head(relationships) IN
         IF "type" \notin DOMAIN rel
         THEN [st EXCEPT !.raised = "KeyError"]
         ELSE LET rel_type == Sanitize(rel.type)
                  built == [st EXCEPT !.rel_types =
                                Append(@, [raw |-> rel.type, rel_type |-> rel_type])]
              IN IF ~ ({"source", "target"} \subseteq DOMAIN rel)
                 THEN [built EXCEPT !.raised = "KeyError"]
                 ELSE IF ~ IsSymbolicName(rel_type)
                 THEN [built EXCEPT !.raised = "CypherSyntaxError"]
                 ELSE CreateRelationships(
                          [built EXCEPT !.rels =
                               MergeRel(built.entities, @, rel.source, rel_type, rel.target)],
                          Tail(relationships))

RECURSIVE LinkChunks(_, _, _, _)
\* for node in graph_data.get("nodes", []): session.run(MATCH ... MERGE (c)-[:MENTIONS]->(e))
LinkChunks(st, nodes, ch, text_sample) ==
    IF nodes = <<>> \/ st.raised # "none" THEN st
    ELSE LinkChunks([st EXCEPT !.mentions =
                         LinkMentions(ch, st.entities, @, Head(nodes).id, text_sample)],
                    Tail(nodes), ch, text_sample)

\* Lines 112-145 on the chunks ch, for the extraction gd of the text text_data.
\* graph_data.get on a value that is no dict raises AttributeError.
LinkEverything(ch, gd, text_data) ==
    LET st0 == [entities |-> entities, rels |-> rels, mentions |-> mentions,
                rel_types |-> <<>>, raised |-> "none"]
    IN IF ~ gd.isDict THEN [st0 EXCEPT !.raised = "AttributeError"]
       ELSE LET st1 == CreateNodes(st0, Get(gd.data, "nodes"))
                st2 == CreateRelationships(st1, Get(gd.data, "relationships"))
            IN LinkChunks(st2, Get(gd.data, "nodes"), ch, Take(text_data, SAMPLE_LEN))

\* ingest_evidence(file_path), with the file's text and the backend's reply
ingest_evidence(f, response) ==
    /\ nIngest < MaxIngest
    /\ LET ch == FromDocuments(chunks, f)
           gd == extract_graph_schema(response)
           st == LinkEverything(ch, gd, f.text)
       IN /\ chunks' = ch
          /\ graph_data' = gd
          /\ entities' = st.entities
          /\ rels' = st.rels
          /\ mentions' = st.mentions
          /\ rel_types' = st.rel_types
          /\ raised' = st.raised
          /\ vector_store' = (vector_store \/ st.raised = "none")
    /\ nIngest' = nIngest + 1
    /\ op' = "ingest_evidence"
    /\ file' = f
    /\ reply' = response
    /\ repeated' = (op = "ingest_evidence" /\ file = f /\ reply = response)
    /\ vector_results' = <<>>
    /\ context_text' = <<>>
    /\ graph_records' = <<>>
    /\ graph_context' = <<>>
    /\ prompt' = NoPrompt

-----------------------------------------------------------------------------
(* investigate_case *)

Min(a, b) ==
    IF a < b THEN a ELSE b

\* vector_store.similarity_search(query, k): the k chunks nearest to the
\* query (all of them when fewer are stored), in an order the embedding of
\* the query decides.
SimilaritySearch(ch, k) ==
    { r \in [1..Min(k, Cardinality(DOMAIN ch)) -> DOMAIN ch] :
        \A i, j \in DOMAIN r : i # j => r[i] # r[j] }

\* (x)-[r]-(y): the node r joins x to, in either direction
OtherEnd(r, x) ==
    IF r.source = x THEN r.target ELSE r.source

\* MATCH (c:EvidenceChunk)-[:MENTIONS]->(start:Entity)-[r1:RELATED]-(middle:Entity)
\*       -[r2:RELATED]-(end:Entity)  WHERE c.text = $text
\* One row per match, in the store's scan order (by start node, then r1, then
\* r2); a relationship is matched once in a pattern (r1 # r2).
TraversalRows(text) ==
    LET E == Len(entities)
        R == Len(rels)
        mentioned == {m.entity : m \in {x \in mentions : x.chunk = text}}
        candidates == [n \in 1..(E * R * R) |->
                          [s |-> ((n - 1) \div (R * R)) + 1,
                           r1 |-> (((n - 1) \div R) % R) + 1,
                           r2 |-> ((n - 1) % R) + 1]]
        Matches(c) ==
            LET start == entities[c.s].id
                middle == OtherEnd(rels[c.r1], start)
            IN /\ c.r1 # c.r2
               /\ rels[c.r1].label = RELATED
               /\ rels[c.r2].label = RELATED
               /\ start \in {rels[c.r1].source, rels[c.r1].target}
               /\ middle \in {rels[c.r2].source, rels[c.r2].target}
               /\ start \in mentioned
        matched == SelectSeq(candidates, Matches)
    IN [n \in DOMAIN matched |->
           LET start == entities[matched[n].s].id
               middle == OtherEnd(rels[matched[n].r1], start)
           IN [start |-> start, r1 |-> matched[n].r1, middle |-> middle,
               r2 |-> matched[n].r2, end |-> OtherEnd(rels[matched[n].r2], middle)]]

\* The query without its LIMIT
Unlimited(rows) ==
    {rows}

\* LIMIT 20.  The query has no ORDER BY, so which rows are kept is the
\* store's choice: the first or the last LIMIT rows of the scan are kept.
Limit(rows) ==
    IF Len(rows) <= LIMIT THEN {rows}
    ELSE {SubSeq(rows, 1, LIMIT), SubSeq(rows, Len(rows) - LIMIT + 1, Len(rows))}

RECURSIVE GraphRecords(_)
\* session.run(cypher_query, text=chunk_text) for each result in turn: the
\* rows each run returns
GraphRecords(results) ==
    IF results = <<>> THEN {<<>>}
    ELSE { <<first>> \o rest : first \in Limit(TraversalRows(Head(results))),
                               rest \in GraphRecords(Tail(results)) }

\* r.<key> in a RETURN: the property's value, or null
RelProperty(r, key) ==
    IF key \in DOMAIN r.properties
    THEN [null |-> FALSE, value |-> r.properties[key]]
    ELSE [null |-> TRUE, value |-> <<>>]

\* str() of a returned value inside the f-string
PyStr(v) ==
    IF v.null THEN NoneStr ELSE v.value

\* f"{start.id} --[{r1.type}]--> {middle.id} --[{r2.type}]--> {end.id}"
FormatFact(row) ==
    row.start \o ArrowOpen \o PyStr(RelProperty(rels[row.r1], "type")) \o ArrowClose
        \o row.middle \o ArrowOpen \o PyStr(RelProperty(rels[row.r2], "type"))
        \o ArrowClose \o row.end

\* f"EVIDENCE FILE ({result.metadata.get('source')}): {chunk_text}\n\n"
ContextEntry(text) ==
    EvidenceFileOpen \o chunks[text] \o EvidenceFileClose \o text \o BlankLine

\* investigate_case(query, vector_store)
investigate_case(query) ==
    /\ vector_store
    /\ \E results \in SimilaritySearch(chunks, K) :
          \E records \in GraphRecords(results) :
             /\ vector_results' = results
             /\ context_text' = Concat([i \in DOMAIN results |-> ContextEntry(results[i])])
             /\ graph_records' =
                    [i \in DOMAIN results |->
                        [n \in DOMAIN records[i] |-> FormatFact(records[i][n])]]
    /\ graph_context' = Concat(graph_records')
    /\ op' = "investigate_case"
    /\ file' = NoFile
    /\ reply' = NoReply
    /\ graph_data' = NoDict
    /\ rel_types' = <<>>
    /\ raised' = "none"
    /\ repeated' = FALSE
    /\ prompt' = [NoPrompt EXCEPT !.mystery = query]
    /\ UNCHANGED << chunks, entities, rels, mentions, vector_store, nIngest >>

-----------------------------------------------------------------------------
(* solve_crime *)

\* "\n".join(graph_context), with no set()
EvidenceBoardOfList(facts) ==
    [fact \in Range(facts) |-> Cardinality({i \in DOMAIN facts : facts[i] = fact})]

\* "\n".join(set(graph_context)): the lines of the evidence board, each with
\* the number of times it is written
EvidenceBoard(facts) ==
    SetToBag(Range(facts))

\* solve_crime(query, context_text, graph_context), called with what
\* investigate_case returned
solve_crime ==
    /\ op = "investigate_case"
    /\ prompt' = [evidence_board |-> EvidenceBoard(graph_context),
                  case_files |-> context_text,
                  mystery |-> prompt.mystery]
    /\ op' = "solve_crime"
    /\ UNCHANGED << chunks, entities, rels, mentions, vector_store, nIngest, file,
                    reply, graph_data, rel_types, raised, repeated, vector_results,
                    context_text, graph_records, graph_context >>

-----------------------------------------------------------------------------

Ingest ==
    \E f \in Files : \E i \in DOMAIN Replies : ingest_evidence(f, Replies[i])

Investigate ==
    \E q \in Queries : investigate_case(q)

Solve ==
    solve_crime

Next ==
    \/ Ingest
    \/ Investigate
    \/ Solve

Spec ==
    Init /\ [][Next]_vars

-----------------------------------------------------------------------------
(* Properties *)

\* A step of ingest_evidence
IngestStep ==
    nIngest' = nIngest + 1

\* The ids of the extraction's node list
NodeIds(gd) ==
    IF gd.isDict
    THEN {n.id : n \in {x \in Range(Get(gd.data, "nodes")) : "id" \in DOMAIN x}}
    ELSE {}

\* The relationships created by the step
NewRels ==
    {rels'[i] : i \in (Len(rels) + 1)..Len(rels')}

\* Case-insensitive substring
ContainsCI(t, p) ==
    \E k \in 0..(Len(t) - Len(p)) :
        \A i \in 1..Len(p) : LowerChar(t[k + i]) = LowerChar(p[i])

\* C1: ingesting the same file with the same extraction twice in a row leaves
\* the Entity nodes and the relationships (endpoints, type, multiplicity) as
\* the first ingestion left them.
C1_Idempotent ==
    [][(IngestStep /\ repeated') => (entities' = entities /\ rels' = rels)]_vars

C1_Witness ==
    /\ op = "ingest_evidence" /\ repeated /\ raised = "none"
    /\ Get(graph_data.data, "nodes") # <<>>
    /\ Get(graph_data.data, "relationships") # <<>>
    /\ rels # <<>>

\* C2 as stated: no ingestion creates an edge for a relationship whose source
\* or target is absent from that extraction's node list.
C2_NoEdgeOutsideNodeList ==
    [][IngestStep =>
          \A e \in NewRels : /\ e.source \in NodeIds(graph_data')
                             /\ e.target \in NodeIds(graph_data')]_vars

\* C2 as amended: an ingestion creates an edge only between ids that are
\* Entities of the store when the edge is upserted: ids stored by an earlier
\* ingestion or in this extraction's node list.  A relationship with an
\* endpoint that is neither is not created.
C2_EdgeOnlyBetweenStoredEntities ==
    [][IngestStep =>
          \A e \in NewRels :
              /\ {e.source, e.target} \subseteq EntityIds(entities')
              /\ {e.source, e.target} \subseteq EntityIds(entities) \cup NodeIds(graph_data')]_vars

C2_Witness ==
    /\ op = "ingest_evidence" /\ raised = "none"
    /\ \E r \in Range(Get(graph_data.data, "relationships")) :
          /\ r.source \notin EntityIds(entities)
          /\ \A i \in DOMAIN rels : rels[i].source # r.source

\* C3: a relationship type with a space or a hyphen reaches the query as a
\* label made of A-Z, 0-9 and _ only; "has motive" reaches it as "HAS_MOTIVE".
C3_LabelAlphabet ==
    \A i \in DOMAIN rel_types :
        /\ rel_types[i].raw = HasMotiveRaw => rel_types[i].rel_type = HAS_MOTIVE
        /\ (\E c \in Range(rel_types[i].raw) : c \in {" ", "-"})
               => \A c \in Range(rel_types[i].rel_type) :
                      c \in Range(UpperChars) \cup DigitChars \cup {"_"}

\* C4: when the backend's text is not JSON, extract_graph_schema returns the
\* empty result, ingest_evidence does not raise, adds no Entity, relationship
\* or MENTIONS edge, and a similarity search returns the file's chunk.
C4_ExtractionFailureIsolated ==
    [][(IngestStep /\ ~ reply'.valid) =>
          /\ graph_data' = [isDict |-> TRUE, data |-> EmptyResult]
          /\ raised' = "none"
          /\ entities' = entities /\ rels' = rels /\ mentions' = mentions
          /\ file'.text \in DOMAIN chunks'
          /\ chunks'[file'.text] = file'.path
          /\ \E r \in SimilaritySearch(chunks', K) : file'.text \in Range(r)]_vars

C4_Witness ==
    /\ op = "ingest_evidence" /\ ~ reply.valid /\ raised = "none"
    /\ entities # <<>> /\ rels # <<>> /\ mentions # {}
    /\ file.text \in DOMAIN chunks

\* 'Aris --[RELATED]--> Marcus --[RELATED]--> Helena' (48 characters)
ExpectedFact ==
    <<"A", "r", "i", "s", " ", "-", "-", "[", "R", "E", "L", "A", "T", "E", "D", "]", "-", "-",
      ">", " ", "M", "a", "r", "c", "u", "s", " ", "-", "-", "[", "R", "E", "L", "A", "T", "E",
      "D", "]", "-", "-", ">", " ", "H", "e", "l", "e", "n", "a">>

\* C5: from an empty store, after the sentence is ingested with the nodes
\* Aris, Marcus, Helena, poison and the relationships RELATED(Aris, Marcus),
\* RELATED(Marcus, Helena), POSSESSES(Marcus, poison), investigate_case
\* returns the fact "Aris --[RELATED]--> Marcus --[RELATED]--> Helena" and a
\* context text holding the sentence.
C5_EndToEnd ==
    ( /\ op = "investigate_case" /\ nIngest = 1
      /\ DOMAIN chunks = {Sentence}
      /\ EntityIds(entities) = {Aris, Marcus, Helena, Poison}
      /\ {<<e.source, e.label, e.target>> : e \in Range(rels)} =
             { <<Aris, RELATED, Marcus>>, <<Marcus, RELATED, Helena>>,
               <<Marcus, POSSESSES, Poison>> } )
        => /\ ExpectedFact \in Range(graph_context)
           /\ Contains(context_text, Sentence)

\* The facts of the two-hop RELATED paths from the entities the chunk of this
\* text MENTIONS, whatever is printed between the brackets
TwoHopFacts(text) ==
    LET printed == {NoneStr} \cup {rels[i].label : i \in DOMAIN rels}
        hops == { h \in [start : {m.entity : m \in {x \in mentions : x.chunk = text}},
                         r1 : DOMAIN rels, r2 : DOMAIN rels] :
                    /\ h.r1 # h.r2
                    /\ rels[h.r1].label = RELATED
                    /\ rels[h.r2].label = RELATED
                    /\ h.start \in {rels[h.r1].source, rels[h.r1].target}
                    /\ OtherEnd(rels[h.r1], h.start)
                           \in {rels[h.r2].source, rels[h.r2].target} }
    IN UNION { { h.start \o ArrowOpen \o x \o ArrowClose
                   \o OtherEnd(rels[h.r1], h.start) \o ArrowOpen \o y \o ArrowClose
                   \o OtherEnd(rels[h.r2], OtherEnd(rels[h.r1], h.start)) :
                 x \in printed, y \in printed } : h \in hops }

\* C6: investigate_case appends at most LIMIT facts per retrieved chunk, at
\* most LIMIT * K in all, and each fact is the start, middle and end of two
\* distinct RELATED relationships walked, in either direction, from an entity
\* the chunk MENTIONS.
C6_TraversalBound ==
    op = "investigate_case" =>
        /\ Len(vector_results) <= K
        /\ DOMAIN graph_records = DOMAIN vector_results
        /\ Len(graph_context) <= LIMIT * K
        /\ \A i \in DOMAIN graph_records :
               /\ Len(graph_records[i]) <= LIMIT
               /\ Range(graph_records[i]) \subseteq TwoHopFacts(vector_results[i])

C6_Witness ==
    /\ op = "investigate_case"
    /\ \E i \in DOMAIN graph_records :
          /\ Len(graph_records[i]) = LIMIT
          /\ Len(TraversalRows(vector_results[i])) > LIMIT

\* C7: every distinct fact of the list passed to solve_crime is on the
\* evidence board of the request exactly once, and nothing else is.
C7_FactsOnce ==
    op = "solve_crime" =>
        /\ BagToSet(prompt.evidence_board) = Range(graph_context)
        /\ \A fact \in Range(graph_context) : CopiesIn(fact, prompt.evidence_board) = 1

C7_Witness ==
    /\ op = "solve_crime"
    /\ \E i, j \in DOMAIN graph_records :
          /\ i # j
          /\ vector_results[i] # vector_results[j]
          /\ Range(graph_records[i]) \cap Range(graph_records[j]) # {}

\* The shape {nodes: [{id, type}], relationships: [{source, target, type}]}
WellShaped(response) ==
    /\ response.isObject
    /\ \A n \in Range(Get(response.data, "nodes")) : {"id", "type"} \subseteq DOMAIN n
    /\ \A r \in Range(Get(response.data, "relationships")) :
           {"source", "target", "type"} \subseteq DOMAIN r

\* C8: when the backend returns JSON of another shape, extraction yields the
\* empty result and ingest_evidence does not raise.
C8_ShapeMismatchRecovered ==
    (op = "ingest_evidence" /\ reply.valid /\ ~ WellShaped(reply))
        => /\ raised = "none"
           /\ graph_data = [isDict |-> TRUE, data |-> EmptyResult]

\* C9: an ingestion that completes links each extracted node id to exactly
\* the stored chunks whose text contains the id, case-insensitively, and
\* contains the first SAMPLE_LEN characters of the ingested text.
C9_MentionsRule ==
    [][(IngestStep /\ raised' = "none") =>
          LET text_sample == Take(file'.text, SAMPLE_LEN)
              Qualifies(c, id) == ContainsCI(c, id) /\ Contains(c, text_sample)
          IN /\ \A id \in NodeIds(graph_data') : \A c \in DOMAIN chunks' :
                    Qualifies(c, id) => [chunk |-> c, entity |-> id] \in mentions'
             /\ \A m \in mentions' \ mentions :
                    m.entity \in NodeIds(graph_data') /\ Qualifies(m.chunk, m.entity)]_vars

\* The last entry of the node list with this id
LastEntry(nodes, id) ==
    nodes[CHOOSE i \in DOMAIN nodes :
              /\ "id" \in DOMAIN nodes[i] /\ nodes[i].id = id
              /\ \A j \in DOMAIN nodes :
                     ("id" \in DOMAIN nodes[j] /\ nodes[j].id = id) => j <= i]

\* C10: after an ingestion the store holds one Entity per id of the node list,
\* typed as the last entry with that id says; every other Entity is as it was.
C10_LastWriteWins ==
    [][IngestStep =>
          LET nodes == Get(graph_data'.data, "nodes") IN
          /\ \A id \in NodeIds(graph_data') :
                 /\ Cardinality({i \in DOMAIN entities' : entities'[i].id = id}) = 1
                 /\ \A i \in DOMAIN entities' :
                        (entities'[i].id = id /\ "type" \in DOMAIN LastEntry(nodes, id))
                            => entities'[i].type = LastEntry(nodes, id).type
          /\ \A i \in DOMAIN entities :
                 entities[i].id \notin NodeIds(graph_data') => entities'[i] = entities[i]]_vars
=============================================================================
